---------------------------- MODULE Spec2Model ----------------------------
(***************************************************************************)
(* The market contract of money-market-contracts                           *)
(* (contracts/market/src/contract.rs): its Config and State records, the   *)
(* entry points instantiate, reply, register_contracts, update_config,     *)
(* execute_epoch_operations, query_state, query_epoch_state and migrate,   *)
(* and the accrual helpers they call.                                      *)
(*                                                                         *)
(* Decimal256 values are integers scaled by Unit (Unit stands for 1.0);    *)
(* Uint256 values are plain naturals.  A collaborator's answer is an input *)
(* of the action that asks for it; Fail is the answer of a failed query.   *)
(***************************************************************************)
EXTENDS Integers, Sequences, FiniteSets, TLC

VARIABLES
    instantiated,   \* whether instantiate has stored Config and State
    config,         \* the stored Config
    state,          \* the stored State
    now,            \* env.block.time.seconds() of the next call
    pre,            \* the stored State before the last call
    preConfig,      \* the stored Config before the last call
    last            \* the last call: entry point, inputs, result, response

vars == <<instantiated, config, state, now, pre, preConfig, last>>

----------------------------------------------------------------------------
(* Bounds *)

\* Scaled integers per 1.0 of a Decimal256.
Unit == 4
\* The largest block time (seconds after genesis).
MaxTime == 1
\* The largest balance the balance oracle answers.
MaxBalance == 3
\* The largest total_liabilities (whole units) a borrow may lead to.
MaxBorrow == 2
\* The latest time a repeated accrual advances to.
MaxAdvance == 3

INITIAL_DEPOSIT_AMOUNT == 1000000

\* A failed collaborator query; also None of an Option<u64> / Option<Uint256>.
Fail == 0 - 1
None == Fail

\* The messages of query_state's and query_epoch_state's time checks.
E_INTEREST == "block_height must bigger than last_interest_updated"
E_REWARD == "block_height must bigger than last_reward_updated"

\* CanonicalAddr::from(vec![])
Unset == ""

Max(a, b) == IF a >= b THEN a ELSE b

----------------------------------------------------------------------------
(* Decimal256 / Uint256 arithmetic, as the handlers use it *)

\* Decimal256::one(), Decimal256::zero()
DecOne == Unit
DecZero == 0

\* Decimal256::from_uint256(u)
from_uint256(u) == u * Unit

\* Decimal256 * Decimal256, truncating
DecMul(a, b) == (a * b) \div Unit

\* Decimal256 / Decimal256, truncating (b # 0)
DecDiv(a, b) == (a * Unit) \div b

\* Decimal256 * Uint256 -> Uint256, truncating
DecMulUint(d, u) == (d * u) \div Unit

----------------------------------------------------------------------------
(* Records *)

Fresh(time, emission) ==
    [ total_liabilities          |-> DecZero,
      total_reserves             |-> DecZero,
      last_interest_updated_time |-> time,
      last_reward_updated_time   |-> time,
      global_interest_index      |-> DecOne,
      global_reward_index        |-> DecZero,
      anc_emission_rate          |-> emission,
      prev_aterra_supply         |-> 0,
      prev_exchange_rate         |-> DecOne ]

NewConfig(owner, factor) ==
    [ contract_addr        |-> "market",
      owner_addr           |-> owner,
      aterra_contract      |-> Unset,
      overseer_contract    |-> Unset,
      interest_model       |-> Unset,
      distribution_model   |-> Unset,
      collector_contract   |-> Unset,
      distributor_contract |-> Unset,
      stable_denom         |-> "uusd",
      max_borrow_factor    |-> factor ]

\* Storage before instantiate: nothing stored.
NoState == Fresh(0, DecZero)
NoConfig == NewConfig(Unset, DecZero)

\* The inputs of a call: message fields, sender, and the collaborators' answers.
NoEnv ==
    [ sender               |-> Unset,
      block_time           |-> None,
      deposit_rate         |-> DecZero,
      target_deposit_rate  |-> DecZero,
      threshold_deposit_rate |-> DecZero,
      distributed_interest |-> 0,
      supply               |-> 0,
      balance              |-> 0,
      borrow_rate          |-> DecZero,
      tax_ok               |-> TRUE,
      emission             |-> DecZero ]

\* What a call passed to its collaborators.
NoCalls ==
    [ borrow_rate_balance |-> None,
      interest_balance    |-> None,
      exchange_balance    |-> None,
      reward_emission     |-> None,
      current_emission    |-> None,
      interest_model      |-> Unset ]

NoAttrs == [ total_reserves |-> None, anc_emission_rate |-> None ]

NoResp == [ exchange_rate |-> None, aterra_supply |-> None, state |-> NoState ]

\* The fields of a call's message that are not collaborator answers.
NoMsg ==
    [ funds                |-> << >>,
      anc_emission_rate    |-> None,
      reply_id             |-> 0,
      token_addr           |-> Unset,
      owner_addr           |-> Unset,
      overseer_contract    |-> Unset,
      interest_model       |-> Unset,
      distribution_model   |-> Unset,
      collector_contract   |-> Unset,
      distributor_contract |-> Unset,
      max_borrow_factor    |-> None,
      borrow_amount        |-> 0,
      hook                 |-> "none" ]

NoLast ==
    [ op       |-> "none",
      err      |-> "none",
      time     |-> 0,
      env      |-> NoEnv,
      msg      |-> NoMsg,
      messages |-> <<>>,
      attrs    |-> NoAttrs,
      calls    |-> NoCalls,
      resp     |-> NoResp ]

----------------------------------------------------------------------------
(* The accrual engines and the exchange rate (crate::borrow, crate::deposit) *)

\* Exchange rate of the receipt token: 1 with no supply, else
\* (balance + total_liabilities - total_reserves) / supply.  Fail when the
\* unsigned subtraction underflows.
compute_exchange_rate_raw(st, aterra_supply, balance) ==
    IF aterra_supply = 0 THEN DecOne
    ELSE IF from_uint256(balance) + st.total_liabilities < st.total_reserves THEN Fail
    ELSE DecDiv(from_uint256(balance) + st.total_liabilities - st.total_reserves,
                from_uint256(aterra_supply))

\* Interest accrual up to block_time with a given borrow rate.
\*   ok = FALSE: block_time precedes the mark, or the arithmetic underflows.
compute_interest_raw(st, block_time, balance, aterra_supply, borrow_rate, target_deposit_rate) ==
    IF block_time < st.last_interest_updated_time THEN [ok |-> FALSE, state |-> st]
    ELSE IF block_time = st.last_interest_updated_time THEN [ok |-> TRUE, state |-> st]
    ELSE IF from_uint256(balance) + st.total_liabilities < st.total_reserves
         THEN [ok |-> FALSE, state |-> st]
    ELSE
      LET elapsed          == from_uint256(block_time - st.last_interest_updated_time)
          interest_factor  == DecMul(borrow_rate, elapsed)
          interest_accrued == DecMul(st.total_liabilities, interest_factor)
          backing          == from_uint256(balance) + st.total_liabilities - st.total_reserves
          target_interest  == DecMul(DecMul(backing, target_deposit_rate), elapsed)
          reserve_portion  == Max(0, interest_accrued - target_interest)
          accrued ==
            [st EXCEPT
               !.global_interest_index =
                   IF st.total_liabilities = 0 THEN @
                   ELSE DecMul(@, DecOne + interest_factor),
               !.total_liabilities = @ + interest_accrued,
               !.total_reserves = @ + reserve_portion,
               !.last_interest_updated_time = block_time]
          exchange_rate == compute_exchange_rate_raw(accrued, aterra_supply, balance)
      IN IF exchange_rate = Fail THEN [ok |-> FALSE, state |-> st]
         ELSE [ok |-> TRUE,
               state |-> [accrued EXCEPT !.prev_aterra_supply = aterra_supply,
                                         !.prev_exchange_rate = exchange_rate]]

\* Reward accrual up to block_time with the stored emission rate.
compute_reward(st, block_time) ==
    IF block_time < st.last_reward_updated_time THEN [ok |-> FALSE, state |-> st]
    ELSE
      LET elapsed        == from_uint256(block_time - st.last_reward_updated_time)
          reward_accrued == DecMul(st.anc_emission_rate, elapsed)
      IN [ok |-> TRUE,
          state |-> [st EXCEPT
             !.global_reward_index =
                 IF st.total_liabilities > 0
                 THEN @ + DecDiv(reward_accrued, st.total_liabilities)
                 ELSE @,
             !.last_reward_updated_time = block_time]]

\* api.addr_humanize of a stored handle fails on the empty address.
humanize_ok(addr) == addr # Unset

\* Interest accrual that asks the collaborators itself: a no-op at the mark,
\* else supply, balance, borrow rate and target deposit rate are queried.
compute_interest(cfg, st, block_time, env) ==
    IF block_time < st.last_interest_updated_time THEN [err |-> "Std", state |-> st]
    ELSE IF block_time = st.last_interest_updated_time THEN [err |-> "none", state |-> st]
    ELSE IF ~humanize_ok(cfg.aterra_contract) \/ env.supply = Fail
         THEN [err |-> "Std", state |-> st]
    ELSE IF env.balance = Fail THEN [err |-> "Std", state |-> st]
    ELSE IF ~humanize_ok(cfg.interest_model) \/ env.borrow_rate = Fail
         THEN [err |-> "Std", state |-> st]
    ELSE IF ~humanize_ok(cfg.overseer_contract) \/ env.target_deposit_rate = Fail
         THEN [err |-> "Std", state |-> st]
    ELSE
      LET r == compute_interest_raw(st, block_time, env.balance, env.supply,
                                    env.borrow_rate, env.target_deposit_rate)
      IN IF r.ok THEN [err |-> "none", state |-> r.state]
         ELSE [err |-> "Panic", state |-> st]

\* deduct_tax of the coin sent to the collector: the amount requested, or Fail.
deduct_tax(amount, tax_ok) == IF tax_ok THEN amount ELSE Fail

----------------------------------------------------------------------------
(* execute_epoch_operations *)

\* The result of a handler: the error ("none" on success), the State that
\* is persisted after it, and the response.
Result(err, st, messages, attrs, calls) ==
    [ err |-> err, state |-> st, messages |-> messages, attrs |-> attrs,
      calls |-> calls ]

\* Mutant: the permission check is missing.
epoch_authorized_any(cfg, sender) == TRUE

\* The permission check: the sender is the stored overseer.
epoch_authorized(cfg, sender) == cfg.overseer_contract = sender

\* Mutant: the working copy is stored before the error is returned.
epoch_abort_partial(err, stored, working) ==
    Result(err, working, <<>>, NoAttrs, NoCalls)

\* An Err return leaves storage as it was: the working copy is dropped.
epoch_abort(err, stored, working) == Result(err, stored, <<>>, NoAttrs, NoCalls)

\* Mutant: the distributed interest is left out of the recomputed rate.
epoch_exchange_balance_net(balance, distributed_interest) == balance

\* The balance the exchange rate is recomputed with.
epoch_exchange_balance(balance, distributed_interest) ==
    balance + distributed_interest

\* Mutant: the emission rate is refreshed before reward accrual.
epoch_reward_state_refreshed(st, emission) ==
    [st EXCEPT !.anc_emission_rate = emission]

\* The State reward accrual runs on: the emission rate is not refreshed yet.
epoch_reward_state(st, emission) == st

\* state.total_reserves * Uint256::one(): the reserves in whole units.
epoch_total_reserves(st) == DecMulUint(st.total_reserves, 1)

\* Mutant: the skim does not look at the balance.
epoch_skim_any_balance(total_reserves, balance) == total_reserves # 0

\* Mutant: the skim takes a balance equal to the reserves as enough.
epoch_skim_at_least(total_reserves, balance) ==
    total_reserves # 0 /\ balance >= total_reserves

\* Whether the reserves are sent to the collector.
epoch_skim(total_reserves, balance) ==
    total_reserves # 0 /\ balance > total_reserves

\* Mutant: the skim clears the reserves, fraction included.
epoch_skim_state_all(st, total_reserves) ==
    [st EXCEPT !.total_reserves = DecZero]

\* The reserves left after the skim.
epoch_skim_state(st, total_reserves) ==
    [st EXCEPT !.total_reserves = @ - from_uint256(total_reserves)]

\* Mutant: the epoch accrues interest to the second after the block time.
epoch_accrue_ahead(st, time, env) ==
    compute_interest_raw(st, time + 1, env.balance - env.distributed_interest,
                         env.supply, env.borrow_rate, env.target_deposit_rate)

\* The epoch's interest accrual: to the block time, on the working balance,
\* with the borrow rate the interest model answered.
epoch_accrue(st, time, env) ==
    compute_interest_raw(st, time, env.balance - env.distributed_interest,
                         env.supply, env.borrow_rate, env.target_deposit_rate)

\* Mutant: the attribute is the amount skimmed, zero without a skim.
epoch_reported_reserves_skimmed(total_reserves, skim) ==
    IF skim THEN total_reserves ELSE 0

\* The total_reserves attribute of the response: the truncated reserves,
\* skimmed or not.
epoch_reported_reserves(total_reserves, skim) == total_reserves

\* Mutant: the epoch leaves the reward accrual out.
epoch_reward_skipped(st, time) == [ok |-> TRUE, state |-> st]

\* The epoch's reward accrual, to the block time.
epoch_reward(st, time) == compute_reward(st, time)

execute_epoch_operations(cfg, st, time, env) ==
    IF ~epoch_authorized(cfg, env.sender) THEN epoch_abort("Unauthorized", st, st)
    ELSE IF ~humanize_ok(cfg.aterra_contract) \/ env.supply = Fail
         THEN epoch_abort("Std", st, st)
    ELSE IF env.balance = Fail THEN epoch_abort("Std", st, st)
    ELSE IF env.balance < env.distributed_interest THEN epoch_abort("Panic", st, st)
    ELSE IF ~humanize_ok(cfg.interest_model) \/ env.borrow_rate = Fail
         THEN epoch_abort("Std", st, st)
    ELSE
      LET aterra_supply == env.supply
          balance == env.balance - env.distributed_interest
          acc == epoch_accrue(st, time, env)
          exchange_balance ==
              epoch_exchange_balance(balance, env.distributed_interest)
          exchange_rate ==
              compute_exchange_rate_raw(acc.state, aterra_supply, exchange_balance)
          s1 == [acc.state EXCEPT !.prev_exchange_rate = exchange_rate]
          s1r == epoch_reward_state(s1, env.emission)
          rew == epoch_reward(s1r, time)
          s2 == rew.state
          total_reserves == epoch_total_reserves(s2)
          skim == epoch_skim(total_reserves, balance)
          s3 == IF skim THEN epoch_skim_state(s2, total_reserves) ELSE s2
          coin == deduct_tax(total_reserves, env.tax_ok)
          messages ==
              IF skim
              THEN << [ to     |-> cfg.collector_contract,
                        denom  |-> cfg.stable_denom,
                        amount |-> coin ] >>
              ELSE << >>
          s4 == [s3 EXCEPT !.anc_emission_rate = env.emission]
          calls == [NoCalls EXCEPT
                      !.borrow_rate_balance = balance,
                      !.interest_balance    = balance,
                      !.exchange_balance    = exchange_balance,
                      !.reward_emission     = s1r.anc_emission_rate,
                      !.current_emission    = s3.anc_emission_rate]
      IN IF ~acc.ok \/ exchange_rate = Fail THEN epoch_abort("Panic", st, acc.state)
         ELSE IF ~rew.ok THEN epoch_abort("Panic", st, s1)
         ELSE IF skim /\ (~humanize_ok(cfg.collector_contract) \/ coin = Fail)
              THEN epoch_abort("Std", st, s3)
         ELSE IF ~humanize_ok(cfg.distribution_model) \/ env.emission = Fail
              THEN epoch_abort("Std", st, s3)
         ELSE Result("none", s4, messages,
                     [ total_reserves    |-> epoch_reported_reserves(total_reserves, skim),
                       anc_emission_rate |-> s4.anc_emission_rate ],
                     calls)

----------------------------------------------------------------------------
(* Queries *)

\* Mutant: query_state does not check the requested time.
query_state_time_check_none(st, block_time) == "none"

\* query_state's two checks of the requested time against the marks:
\* the error returned, "none" when both pass.
query_state_time_check(st, block_time) ==
    IF block_time < st.last_interest_updated_time THEN E_INTEREST
    ELSE IF block_time < st.last_reward_updated_time THEN E_REWARD
    ELSE "none"

\* Mutant: query_state projects to the block's time whatever was asked.
query_state_block_time_env(asked, time) == time

\* The time query_state projects to: the one asked for, else the block's.
query_state_block_time(asked, time) == IF asked # None THEN asked ELSE time

\* query_state: the State projected to block_time (env time when None).
query_state(cfg, st, time, env) ==
    LET block_time == query_state_block_time(env.block_time, time)
        int == compute_interest(cfg, st, block_time, env)
        rew == compute_reward(int.state, block_time)
    IN IF query_state_time_check(st, block_time) # "none"
          THEN [err |-> query_state_time_check(st, block_time), resp |-> NoResp]
       ELSE IF int.err # "none" THEN [err |-> int.err, resp |-> NoResp]
       ELSE IF ~rew.ok THEN [err |-> "Panic", resp |-> NoResp]
       ELSE [err |-> "none", resp |-> [NoResp EXCEPT !.state = rew.state]]

\* query_epoch_state's check of the requested time against the interest mark.
query_epoch_time_check(st, block_time) ==
    IF block_time < st.last_interest_updated_time THEN E_INTEREST ELSE "none"

\* Mutant: query_epoch_state leaves the distributed interest out.
query_exchange_balance_net(balance, distributed_interest) == balance

\* The balance query_epoch_state computes the exchange rate with.
query_exchange_balance(balance, distributed_interest) ==
    balance + distributed_interest

\* query_epoch_state: the exchange rate and supply projected to block_time.
query_epoch_state(cfg, st, env) ==
    LET distributed_interest ==
            IF env.distributed_interest # None THEN env.distributed_interest ELSE 0
        aterra_supply == env.supply
        balance == env.balance - distributed_interest
        acc == IF env.block_time # None
               THEN compute_interest_raw(st, env.block_time, balance, aterra_supply,
                                         env.borrow_rate, env.target_deposit_rate)
               ELSE [ok |-> TRUE, state |-> st]
        exchange_rate ==
            compute_exchange_rate_raw(acc.state, aterra_supply,
                                      query_exchange_balance(balance, distributed_interest))
    IN IF ~humanize_ok(cfg.aterra_contract) \/ env.supply = Fail
            THEN [err |-> "Std", resp |-> NoResp]
       ELSE IF env.balance = Fail THEN [err |-> "Std", resp |-> NoResp]
       ELSE IF env.balance < distributed_interest THEN [err |-> "Panic", resp |-> NoResp]
       ELSE IF env.block_time # None /\ query_epoch_time_check(st, env.block_time) # "none"
            THEN [err |-> E_INTEREST, resp |-> NoResp]
       ELSE IF env.block_time # None
               /\ (~humanize_ok(cfg.interest_model) \/ env.borrow_rate = Fail)
            THEN [err |-> "Std", resp |-> NoResp]
       ELSE IF env.block_time # None
               /\ (~humanize_ok(cfg.overseer_contract) \/ env.target_deposit_rate = Fail)
            THEN [err |-> "Std", resp |-> NoResp]
       ELSE IF ~acc.ok \/ exchange_rate = Fail THEN [err |-> "Panic", resp |-> NoResp]
       ELSE [err |-> "none",
             resp |-> [NoResp EXCEPT !.exchange_rate = exchange_rate,
                                     !.aterra_supply = aterra_supply]]

----------------------------------------------------------------------------
(* Registration, configuration, migration *)

\* Mutant: register_aterra takes every address it is given.
register_aterra_again(cfg, token_addr) ==
    [err |-> "none", config |-> [cfg EXCEPT !.aterra_contract = token_addr]]

\* register_aterra: the receipt token's address, set once.
register_aterra(cfg, token_addr) ==
    IF cfg.aterra_contract # Unset THEN [err |-> "Unauthorized", config |-> cfg]
    ELSE [err |-> "none", config |-> [cfg EXCEPT !.aterra_contract = token_addr]]

\* reply: id 1 carries the instantiated token's address.
reply(cfg, id, token_addr) ==
    IF id = 1 THEN register_aterra(cfg, token_addr)
    ELSE [err |-> "InvalidReplyId", config |-> cfg]

\* Mutant: register_contracts looks at the overseer handle only.
register_contracts_overseer_only(cfg, msg) ==
    IF cfg.overseer_contract # Unset
    THEN [err |-> "Unauthorized", config |-> cfg]
    ELSE [err |-> "none",
          config |-> [cfg EXCEPT !.overseer_contract = msg.overseer_contract,
                                 !.interest_model = msg.interest_model,
                                 !.distribution_model = msg.distribution_model,
                                 !.collector_contract = msg.collector_contract,
                                 !.distributor_contract = msg.distributor_contract]]

\* register_contracts: the five handles, set once and together.
register_contracts(cfg, msg) ==
    IF \/ cfg.overseer_contract # Unset
       \/ cfg.interest_model # Unset
       \/ cfg.distribution_model # Unset
       \/ cfg.collector_contract # Unset
       \/ cfg.distributor_contract # Unset
    THEN [err |-> "Unauthorized", config |-> cfg]
    ELSE [err |-> "none",
          config |-> [cfg EXCEPT !.overseer_contract = msg.overseer_contract,
                                 !.interest_model = msg.interest_model,
                                 !.distribution_model = msg.distribution_model,
                                 !.collector_contract = msg.collector_contract,
                                 !.distributor_contract = msg.distributor_contract]]

\* Mutant: update_config is open to every sender.
update_authorized_any(cfg, sender) == TRUE

\* update_config's permission check: the sender is the stored owner.
update_authorized(cfg, sender) == sender = cfg.owner_addr

\* Mutant: the interest model is replaced before the accrual.
update_accrual_config_replaced(cfg, msg) ==
    [cfg EXCEPT !.interest_model = msg.interest_model]

\* The config update_config hands to compute_interest: only the owner may
\* have been replaced by then.
update_accrual_config(cfg, msg) ==
    IF msg.owner_addr # Unset THEN [cfg EXCEPT !.owner_addr = msg.owner_addr] ELSE cfg

\* update_config; an Option<Addr> of None is Unset, an Option<Decimal256> of
\* None is None.  accrued_with is the interest model of the config handed to
\* compute_interest, Unset when the message names no interest model.
update_config(cfg, st, time, env, msg) ==
    LET acc == update_accrual_config(cfg, msg)
        int == IF msg.interest_model # Unset
               THEN compute_interest(acc, st, time, env)
               ELSE [err |-> "none", state |-> st]
        c1 == IF msg.owner_addr # Unset
              THEN [cfg EXCEPT !.owner_addr = msg.owner_addr] ELSE cfg
        c2 == IF msg.interest_model # Unset
              THEN [c1 EXCEPT !.interest_model = msg.interest_model] ELSE c1
        c3 == IF msg.distribution_model # Unset
              THEN [c2 EXCEPT !.distribution_model = msg.distribution_model] ELSE c2
        c4 == IF msg.max_borrow_factor # None
              THEN [c3 EXCEPT !.max_borrow_factor = msg.max_borrow_factor] ELSE c3
        with == IF msg.interest_model # Unset THEN acc.interest_model ELSE Unset
    IN IF ~update_authorized(cfg, env.sender)
          THEN [err |-> "Unauthorized", config |-> cfg, state |-> st,
                accrued_with |-> Unset]
       ELSE IF int.err # "none"
          THEN [err |-> int.err, config |-> cfg, state |-> st, accrued_with |-> with]
       ELSE [err |-> "none", config |-> c4, state |-> int.state,
             accrued_with |-> with]

\* Mutant: migrate keeps the stored emission rate.
migrate_kept(st, anc_emission_rate) == st

\* Mutant: migrate stores a new State around the emission rate.
migrate_reset(st, anc_emission_rate) == Fresh(0, anc_emission_rate)

\* migrate: the emission rate is replaced, the rest of State is kept.
migrate(st, anc_emission_rate) ==
    [st EXCEPT !.anc_emission_rate = anc_emission_rate]

\* A coin of info.funds.
Coin(denom, amount) == [ denom |-> denom, amount |-> amount ]

\* Mutant: the first coin attached counts, whatever its denomination.
initial_deposit_any_denom(funds, stable_denom) ==
    IF Len(funds) = 0 THEN 0 ELSE funds[1].amount

\* The amount of the first coin of the stable denomination, zero without one.
initial_deposit(funds, stable_denom) ==
    LET found == { i \in 1..Len(funds) : funds[i].denom = stable_denom }
    IN IF found = {} THEN 0
       ELSE funds[CHOOSE i \in found : \A j \in found : i <= j].amount

\* instantiate: the initial deposit must be attached.
instantiate(time, msg) ==
    IF initial_deposit(msg.funds, "uusd") # INITIAL_DEPOSIT_AMOUNT
    THEN [err |-> "InitialFundsNotDeposited", config |-> NoConfig, state |-> NoState,
          messages |-> << >>]
    ELSE [err |-> "none",
          config |-> NewConfig(msg.owner_addr, msg.max_borrow_factor),
          state |-> Fresh(time, msg.anc_emission_rate),
          messages |-> << [ reply_id |-> 1,
                            initial_balance |-> INITIAL_DEPOSIT_AMOUNT ] >>]

\* borrow_stable, as far as State goes: interest and reward are accrued to
\* the block time, then the loan is added to total_liabilities.
borrow_stable(cfg, st, time, env, borrow_amount) ==
    LET int == compute_interest(cfg, st, time, env)
        rew == compute_reward(int.state, time)
    IN IF int.err # "none" THEN [err |-> int.err, state |-> st]
       ELSE IF ~rew.ok THEN [err |-> "Panic", state |-> st]
       ELSE [err |-> "none",
             state |-> [rew.state EXCEPT
                          !.total_liabilities = @ + from_uint256(borrow_amount)]]

\* redeem_stable, as far as State goes: interest is accrued to the block time
\* before the receipt tokens are burnt and the stable coins sent.
redeem_stable(cfg, st, time, env) ==
    LET int == compute_interest(cfg, st, time, env)
    IN IF int.err # "none" THEN [err |-> int.err, state |-> st]
       ELSE [err |-> "none", state |-> int.state]

\* receive_cw20: the RedeemStable hook is open to the receipt token only,
\* every other hook message is refused.
receive_cw20(cfg, st, time, env, hook) ==
    IF hook = "RedeemStable"
    THEN IF env.sender # cfg.aterra_contract
         THEN [err |-> "Unauthorized", state |-> st]
         ELSE redeem_stable(cfg, st, time, env)
    ELSE [err |-> "MissingRedeemStableHook", state |-> st]

----------------------------------------------------------------------------
(* Inputs *)

\* The interest model's answer when it lends: 1 - 1/Unit per second.
BorrowRate == Unit - 1
\* The balance oracle's answers: nothing, and enough for a skim with and
\* without the distributed interest.
Balances == {0, MaxBalance - 1, MaxBalance}

\* An authorized epoch call whose collaborators all answer.
EpochEnv(t, d, sup, b, r, e) ==
    [NoEnv EXCEPT !.sender = "overseer", !.deposit_rate = DecOne,
                  !.target_deposit_rate = t, !.threshold_deposit_rate = DecOne,
                  !.distributed_interest = d, !.supply = sup, !.balance = b,
                  !.borrow_rate = r, !.emission = e]

EpochAnswered ==
    { EpochEnv(0, d, 2, b, BorrowRate, 0) : d \in 0..1, b \in Balances }
    \cup { EpochEnv(0, 0, 0, MaxBalance, BorrowRate, Unit),
           EpochEnv(0, 0, 2, MaxBalance, 0, Unit),
           EpochEnv(Unit, 0, 2, MaxBalance, BorrowRate, Unit) }

\* The same call with one collaborator failing, or from another sender.
EpochFailing ==
    LET ok == EpochEnv(0, 0, 2, MaxBalance, BorrowRate, Unit)
    IN { [ok EXCEPT !.supply = Fail], [ok EXCEPT !.balance = Fail],
         [ok EXCEPT !.borrow_rate = Fail], [ok EXCEPT !.tax_ok = FALSE],
         [ok EXCEPT !.emission = Fail], [ok EXCEPT !.sender = "other"] }

EpochEnvs == EpochAnswered \cup EpochFailing

\* query_epoch_state's inputs: no sender, an optional time and an optional
\* distributed_interest; the overseer answers the target deposit rate.
QueryEpochEnvs ==
    { [EpochEnv(0, d, 2, MaxBalance, BorrowRate, 0) EXCEPT !.sender = Unset,
                                                              !.block_time = bt] :
        d \in {None}, bt \in {None} \cup 0..MaxTime }
    \cup { [EpochEnv(0, 1, 2, 0, BorrowRate, 0) EXCEPT !.sender = Unset,
                                                        !.block_time = MaxTime],
           [EpochEnv(Fail, 0, 2, MaxBalance, BorrowRate, 0) EXCEPT
                !.sender = Unset, !.block_time = MaxTime],
           [EpochEnv(0, 0, 2, MaxBalance, Fail, 0) EXCEPT
                !.sender = Unset, !.block_time = MaxTime] }

\* What the collaborators may answer to an accrual that queries them itself.
AccrualEnvs ==
    { [NoEnv EXCEPT !.supply = 2, !.balance = b, !.borrow_rate = BorrowRate] :
        b \in {MaxBalance, Fail} }

RegisterMsgs ==
    { [NoMsg EXCEPT !.overseer_contract = "overseer", !.interest_model = "im",
                    !.distribution_model = "dm", !.collector_contract = "collector",
                    !.distributor_contract = "distributor"] }

\* The coins a caller may attach to instantiate (one coin per denomination).
InstantiateFunds ==
    { << >>,
      << Coin("uusd", INITIAL_DEPOSIT_AMOUNT) >>,
      << Coin("uusd", INITIAL_DEPOSIT_AMOUNT - 1) >>,
      << Coin("ukrw", INITIAL_DEPOSIT_AMOUNT) >>,
      << Coin("ukrw", 1), Coin("uusd", INITIAL_DEPOSIT_AMOUNT) >> }

UpdateMsgs ==
    { [NoMsg EXCEPT !.interest_model = "im2"],
      [NoMsg EXCEPT !.owner_addr = "owner2", !.interest_model = "im2",
                    !.distribution_model = "dm2", !.max_borrow_factor = DecZero] }

----------------------------------------------------------------------------
(* The state machine *)

Init ==
    /\ instantiated = FALSE
    /\ config = NoConfig
    /\ state = NoState
    /\ now = 0
    /\ pre = NoState
    /\ preConfig = NoConfig
    /\ last = NoLast

\* Every call records the storage it found.
Remember == pre' = state /\ preConfig' = config

Instantiate ==
    /\ ~instantiated
    /\ \E f \in InstantiateFunds, e \in {Unit} :
         LET msg == [NoMsg EXCEPT !.funds = f, !.anc_emission_rate = e,
                                  !.owner_addr = "owner", !.max_borrow_factor = DecOne]
             r == instantiate(now, msg)
         IN /\ instantiated' = (r.err = "none")
            /\ config' = r.config
            /\ state' = r.state
            /\ last' = [NoLast EXCEPT !.op = "instantiate", !.err = r.err,
                                      !.time = now, !.msg = msg,
                                      !.messages = r.messages]
    /\ Remember
    /\ UNCHANGED now

Reply ==
    /\ instantiated
    /\ \E id \in {1, 2}, a \in {"aterra"} :
         LET r == reply(config, id, a)
         IN /\ config' = r.config
            /\ last' = [NoLast EXCEPT !.op = "reply", !.err = r.err, !.time = now,
                                      !.msg = [NoMsg EXCEPT !.reply_id = id,
                                                            !.token_addr = a]]
    /\ Remember
    /\ UNCHANGED <<instantiated, state, now>>

RegisterContracts ==
    /\ instantiated
    /\ \E msg \in RegisterMsgs :
         LET r == register_contracts(config, msg)
         IN /\ config' = r.config
            /\ last' = [NoLast EXCEPT !.op = "register_contracts", !.err = r.err,
                                      !.time = now, !.msg = msg]
    /\ Remember
    /\ UNCHANGED <<instantiated, state, now>>

UpdateConfig ==
    /\ instantiated
    /\ \E e \in AccrualEnvs, sender \in {"owner", "owner2"}, msg \in UpdateMsgs :
         LET env == [e EXCEPT !.sender = sender]
             r == update_config(config, state, now, env, msg)
         IN /\ config' = r.config
            /\ state' = r.state
            /\ last' = [NoLast EXCEPT !.op = "update_config", !.err = r.err,
                                      !.time = now, !.env = env, !.msg = msg,
                                      !.calls.interest_model = r.accrued_with]
    /\ Remember
    /\ UNCHANGED <<instantiated, now>>

ExecuteEpochOperations ==
    /\ instantiated
    /\ \E env \in EpochEnvs :
         LET r == execute_epoch_operations(config, state, now, env)
         IN /\ state' = r.state
            /\ last' = [NoLast EXCEPT !.op = "execute_epoch_operations",
                                      !.err = r.err, !.time = now, !.env = env,
                                      !.messages = r.messages, !.attrs = r.attrs,
                                      !.calls = r.calls]
    /\ Remember
    /\ UNCHANGED <<instantiated, config, now>>

QueryState ==
    /\ instantiated
    /\ \E env \in AccrualEnvs, bt \in {None} \cup 0..MaxTime :
         LET e == [env EXCEPT !.block_time = bt]
             r == query_state(config, state, now, e)
         IN last' = [NoLast EXCEPT !.op = "query_state", !.err = r.err,
                                   !.time = now, !.env = e, !.resp = r.resp]
    /\ Remember
    /\ UNCHANGED <<instantiated, config, state, now>>

QueryEpochState ==
    /\ instantiated
    /\ \E e \in QueryEpochEnvs :
         LET r == query_epoch_state(config, state, e)
         IN last' = [NoLast EXCEPT !.op = "query_epoch_state", !.err = r.err,
                                   !.time = now, !.env = e, !.resp = r.resp]
    /\ Remember
    /\ UNCHANGED <<instantiated, config, state, now>>

Migrate ==
    /\ instantiated
    /\ \E e \in {0} :
         /\ state' = migrate(state, e)
         /\ last' = [NoLast EXCEPT !.op = "migrate", !.time = now,
                                   !.msg = [NoMsg EXCEPT !.anc_emission_rate = e]]
    /\ Remember
    /\ UNCHANGED <<instantiated, config, now>>

BorrowStable ==
    /\ instantiated
    /\ \E env \in AccrualEnvs, a \in {MaxBorrow} :
         LET r == borrow_stable(config, state, now, env, a)
         IN /\ r.state.total_liabilities <= from_uint256(MaxBorrow)
            /\ state' = r.state
            /\ last' = [NoLast EXCEPT !.op = "borrow_stable", !.err = r.err,
                                      !.time = now, !.env = env,
                                      !.msg = [NoMsg EXCEPT !.borrow_amount = a]]
    /\ Remember
    /\ UNCHANGED <<instantiated, config, now>>

\* The next block: block time never decreases.
Tick ==
    /\ now < MaxTime
    /\ now' = now + 1
    /\ UNCHANGED <<instantiated, config, state, pre, preConfig, last>>

Next ==
    \/ Instantiate
    \/ Reply
    \/ RegisterContracts
    \/ UpdateConfig
    \/ ExecuteEpochOperations
    \/ QueryState
    \/ QueryEpochState
    \/ Migrate
    \/ BorrowStable
    \/ Tick

Spec == Init /\ [][Next]_vars

----------------------------------------------------------------------------
(* The state machine of registration and configuration: the same storage and
   handlers, called with every address a handle may be given and with few
   collaborator answers *)

RegisterMsgsAny ==
    RegisterMsgs
    \cup { [NoMsg EXCEPT !.overseer_contract = "overseer2", !.interest_model = "im2",
                         !.distribution_model = "dm2",
                         !.collector_contract = "collector2",
                         !.distributor_contract = "distributor2"] }

\* One field at a time.
UpdateMsgsAny ==
    { [NoMsg EXCEPT !.owner_addr = "owner2"],
      [NoMsg EXCEPT !.interest_model = "im2"],
      [NoMsg EXCEPT !.distribution_model = "dm2"] }

\* Epoch calls whose collaborators all answer, from each sender.
EpochEnvsAny ==
    { [EpochEnv(0, 0, 2, MaxBalance, BorrowRate, Unit) EXCEPT !.sender = sender] :
        sender \in {"overseer", "other"} }

\* The collaborators of an accrual all answer.
AccrualEnvAny == [NoEnv EXCEPT !.supply = 2, !.balance = MaxBalance,
                              !.borrow_rate = BorrowRate]

ReplyAny ==
    /\ instantiated
    /\ \E id \in {1, 2}, a \in {"aterra", "aterra2"} :
         LET r == reply(config, id, a)
         IN /\ config' = r.config
            /\ last' = [NoLast EXCEPT !.op = "reply", !.err = r.err, !.time = now,
                                      !.msg = [NoMsg EXCEPT !.reply_id = id,
                                                            !.token_addr = a]]
    /\ Remember
    /\ UNCHANGED <<instantiated, state, now>>

RegisterContractsAny ==
    /\ instantiated
    /\ \E msg \in RegisterMsgsAny :
         LET r == register_contracts(config, msg)
         IN /\ config' = r.config
            /\ last' = [NoLast EXCEPT !.op = "register_contracts", !.err = r.err,
                                      !.time = now, !.msg = msg]
    /\ Remember
    /\ UNCHANGED <<instantiated, state, now>>

UpdateConfigAny ==
    /\ instantiated
    /\ \E sender \in {"owner", "owner2"}, msg \in UpdateMsgsAny :
         LET env == [AccrualEnvAny EXCEPT !.sender = sender]
             r == update_config(config, state, now, env, msg)
         IN /\ config' = r.config
            /\ state' = r.state
            /\ last' = [NoLast EXCEPT !.op = "update_config", !.err = r.err,
                                      !.time = now, !.env = env, !.msg = msg,
                                      !.calls.interest_model = r.accrued_with]
    /\ Remember
    /\ UNCHANGED <<instantiated, now>>

ExecuteEpochOperationsAny ==
    /\ instantiated
    /\ \E env \in EpochEnvsAny :
         LET r == execute_epoch_operations(config, state, now, env)
         IN /\ state' = r.state
            /\ last' = [NoLast EXCEPT !.op = "execute_epoch_operations",
                                      !.err = r.err, !.time = now, !.env = env,
                                      !.messages = r.messages, !.attrs = r.attrs,
                                      !.calls = r.calls]
    /\ Remember
    /\ UNCHANGED <<instantiated, config, now>>

ReceiveCw20 ==
    /\ instantiated
    /\ \E sender \in {"aterra", "other"}, hook \in {"RedeemStable", "DepositStable"} :
         LET env == [AccrualEnvAny EXCEPT !.sender = sender]
             r == receive_cw20(config, state, now, env, hook)
         IN /\ state' = r.state
            /\ last' = [NoLast EXCEPT !.op = "receive_cw20", !.err = r.err,
                                      !.time = now, !.env = env,
                                      !.msg = [NoMsg EXCEPT !.hook = hook]]
    /\ Remember
    /\ UNCHANGED <<instantiated, config, now>>

NextRegistration ==
    \/ Instantiate
    \/ ReplyAny
    \/ RegisterContractsAny
    \/ UpdateConfigAny
    \/ ExecuteEpochOperationsAny
    \/ ReceiveCw20
    \/ BorrowStable
    \/ Tick

SpecRegistration == Init /\ [][NextRegistration]_vars

----------------------------------------------------------------------------
(* Interest accrual as a function: a State, a borrow rate, and up to two
   advances in time with the collaborators' answers held fixed *)

\* A registered market.
Registered ==
    register_contracts(register_aterra(NewConfig("owner", DecOne), "aterra").config,
                       CHOOSE msg \in RegisterMsgs : TRUE).config

\* States to accrue from: loans of whole units, an index of 1 or more, the
\* mark at genesis or a second later.
AccrualStates ==
    { [Fresh(t, 0) EXCEPT !.total_liabilities = from_uint256(l),
                          !.global_interest_index = DecOne + i] :
        t \in 0..1, l \in 0..MaxBorrow, i \in 0..1 }

\* The collaborators' answers, the same for every advance.
AccrualAnswers ==
    { EpochEnv(0, 0, 2, MaxBalance, r, 0) : r \in 0..Unit }

InitAccrual ==
    /\ instantiated = TRUE
    /\ config = Registered
    /\ preConfig = Registered
    /\ state \in AccrualStates
    /\ pre = state
    /\ now = state.last_interest_updated_time
    /\ \E env \in AccrualAnswers : last = [NoLast EXCEPT !.time = now, !.env = env]

\* One advance, to the present or later; last.messages lists the times
\* advanced to, pre stays the State the first advance started from.
AccrueInterest ==
    /\ Len(last.messages) < 2
    /\ \E t \in now..MaxAdvance :
         LET r == epoch_accrue(state, t, last.env)
         IN /\ r.ok
            /\ state' = r.state
            /\ now' = t
            /\ last' = [last EXCEPT !.op = "compute_interest_raw", !.time = t,
                                    !.messages = Append(@, t)]
    /\ UNCHANGED <<instantiated, config, pre, preConfig>>

NextAccrual == AccrueInterest

SpecAccrual == InitAccrual /\ [][NextAccrual]_vars

----------------------------------------------------------------------------
(* Properties of execute_epoch_operations and of the queries *)

EpochDone == last.op = "execute_epoch_operations"
EpochOk == EpochDone /\ last.err = "none"

\* The working balance of the last epoch call: the balance queried, less the
\* distributed interest.
EpochBalance == last.env.balance - last.env.distributed_interest

\* The State the last epoch call had after interest accrual, before the skim.
EpochAccrued ==
    compute_interest_raw(pre, last.time, EpochBalance, last.env.supply,
                         last.env.borrow_rate, last.env.target_deposit_rate).state

\* Its reserves in whole units.
EpochTrunc == EpochAccrued.total_reserves \div Unit

EpochSkimmed == EpochOk /\ Len(last.messages) = 1

\* C1: an execute_epoch_operations call that fails, at whichever query or
\* transfer, leaves every field of the persisted State as it was.
C1_EpochAllOrNothing ==
    (EpochDone /\ last.err # "none") => state = pre

\* A call that failed at the collector transfer, after interest was accrued
\* and the reserves were skimmed in the working copy.
C1_Witness ==
    /\ EpochDone /\ last.err = "Std"
    /\ last.env.sender = preConfig.overseer_contract
    /\ preConfig.aterra_contract # Unset
    /\ ~last.env.tax_ok
    /\ last.time > pre.last_interest_updated_time
    /\ pre.total_liabilities > 0

\* C2: an execute_epoch_operations call from a sender that is not the
\* configured overseer fails with Unauthorized and changes neither State nor
\* Config; a call that got past the check came from the overseer.
C2_EpochOverseerOnly ==
    /\ (EpochDone /\ last.env.sender # preConfig.overseer_contract)
         => (last.err = "Unauthorized" /\ state = pre /\ config = preConfig)
    /\ (EpochDone /\ last.err # "Unauthorized")
         => last.env.sender = preConfig.overseer_contract

\* Another sender calls a registered market whose State an epoch would change.
C2_Witness ==
    /\ EpochDone /\ last.err = "Unauthorized"
    /\ preConfig.overseer_contract = "overseer"
    /\ last.env.sender = "other"
    /\ preConfig.aterra_contract # Unset
    /\ last.time > pre.last_interest_updated_time
    /\ pre.total_liabilities > 0

\* C3: after every epoch, total_reserves >= 0, and a transfer to the
\* collector never asks for more than the balance that was queried.
C3_SkimBounded ==
    EpochOk =>
      /\ state.total_reserves >= 0
      /\ \A i \in 1..Len(last.messages) :
           last.messages[i].amount <= last.env.balance

\* An epoch that skimmed at least one unit.
C3_Witness == EpochSkimmed /\ last.messages[1].amount > 0

\* C4 as stated: the skim happens exactly when the truncated reserves are
\* non-zero and the on-hand balance (the balance queried) exceeds them; then
\* total_reserves drops by the truncated amount and one transfer is emitted,
\* else total_reserves is kept and nothing is transferred.
C4_SkimOnHandBalance ==
    EpochOk =>
      IF EpochTrunc # 0 /\ last.env.balance > EpochTrunc
      THEN /\ state.total_reserves = EpochAccrued.total_reserves - from_uint256(EpochTrunc)
           /\ state.total_reserves < DecOne
           /\ Len(last.messages) = 1
           /\ last.messages[1].to = config.collector_contract
           /\ last.messages[1].amount = EpochTrunc
      ELSE /\ state.total_reserves = EpochAccrued.total_reserves
           /\ last.messages = << >>

\* C4 amended: the same, with the balance net of distributed_interest in
\* the comparison (the balance that interest accrual used).
C4_SkimWorkingBalance ==
    EpochOk =>
      IF EpochTrunc # 0 /\ EpochBalance > EpochTrunc
      THEN /\ state.total_reserves = EpochAccrued.total_reserves - from_uint256(EpochTrunc)
           /\ state.total_reserves < DecOne
           /\ Len(last.messages) = 1
           /\ last.messages[1].to = config.collector_contract
           /\ last.messages[1].amount = EpochTrunc
      ELSE /\ state.total_reserves = EpochAccrued.total_reserves
           /\ last.messages = << >>

\* An epoch with distributed interest that skimmed and left a fraction.
C4_Witness ==
    /\ EpochSkimmed
    /\ state.total_reserves > 0
    /\ last.env.distributed_interest > 0

C6_IndicesMonotone ==
    last.op \in {"execute_epoch_operations", "update_config", "migrate"} =>
      /\ state.global_interest_index >= pre.global_interest_index
      /\ state.global_reward_index >= pre.global_reward_index

\* A migration of a State whose two indices had advanced.
C6_Witness ==
    /\ last.op = "migrate"
    /\ pre.global_interest_index > DecOne
    /\ pre.global_reward_index > DecZero

\* C7: the exchange rate query_epoch_state returns for the block time and
\* distributed_interest of an epoch, given the same answers, is the
\* prev_exchange_rate that epoch persists.
C7_QueryMatchesCommit ==
    EpochOk =>
      LET q == query_epoch_state(preConfig, pre,
                                 [last.env EXCEPT !.block_time = last.time])
      IN /\ q.err = "none"
         /\ q.resp.exchange_rate = state.prev_exchange_rate
         /\ q.resp.aterra_supply = last.env.supply

\* An epoch with distributed interest, a supply, and interest to accrue.
C7_Witness ==
    /\ EpochOk
    /\ last.env.distributed_interest > 0
    /\ last.env.supply > 0
    /\ last.time > pre.last_interest_updated_time
    /\ state.total_liabilities > pre.total_liabilities

\* The time the last query asked for.
QueryTime ==
    IF last.env.block_time # None THEN last.env.block_time ELSE last.time

\* C8: a query for a time before a mark fails and changes nothing:
\* query_state before either mark fails with that mark's message;
\* query_epoch_state before the interest mark fails, with the interest
\* mark's message once supply and balance were answered.
C8_TemporalRejection ==
    /\ (last.op = "query_state" /\ QueryTime < pre.last_interest_updated_time)
         => (last.err = E_INTEREST /\ state = pre /\ config = preConfig)
    /\ (last.op = "query_state" /\ QueryTime >= pre.last_interest_updated_time
          /\ QueryTime < pre.last_reward_updated_time)
         => (last.err = E_REWARD /\ state = pre /\ config = preConfig)
    /\ (last.op = "query_epoch_state" /\ last.env.block_time # None
          /\ last.env.block_time < pre.last_interest_updated_time)
         => /\ last.err # "none"
            /\ state = pre /\ config = preConfig
            /\ (preConfig.aterra_contract # Unset /\ last.env.supply # Fail
                  /\ last.env.balance # Fail
                  /\ (last.env.distributed_interest = None
                        \/ last.env.balance >= last.env.distributed_interest))
                 => last.err = E_INTEREST

\* query_state asked for a time before the interest mark, all answers given.
C8_Witness ==
    /\ last.op = "query_state"
    /\ last.env.block_time # None
    /\ last.env.block_time < pre.last_interest_updated_time
    /\ last.env.balance # Fail
    /\ pre.total_liabilities > 0

\* C9: reward accrual of an epoch uses the emission rate stored before the
\* call, the distribution model is asked with that rate as the current one,
\* and the answer replaces anc_emission_rate after both accruals.
C9_EmissionRefreshedLast ==
    EpochOk =>
      /\ last.calls.reward_emission = pre.anc_emission_rate
      /\ last.calls.current_emission = pre.anc_emission_rate
      /\ state.anc_emission_rate = last.env.emission
      /\ state.global_reward_index =
           compute_reward([EpochAccrued EXCEPT
                              !.anc_emission_rate = pre.anc_emission_rate],
                          last.time).state.global_reward_index

\* An epoch that accrued reward and changed the emission rate.
C9_Witness ==
    /\ EpochOk
    /\ last.env.emission # pre.anc_emission_rate
    /\ state.global_reward_index > pre.global_reward_index

\* C10: the prev_exchange_rate an epoch persists is the exchange rate of the
\* accrued, not yet skimmed State with the supply queried and the whole
\* balance queried; the borrow-rate query and interest accrual got the
\* balance less distributed_interest.
C10_ExchangeRateFullBalance ==
    EpochOk =>
      /\ state.prev_exchange_rate =
           compute_exchange_rate_raw(EpochAccrued, last.env.supply, last.env.balance)
      /\ state.total_liabilities = EpochAccrued.total_liabilities
      /\ last.calls.borrow_rate_balance = EpochBalance
      /\ last.calls.interest_balance = EpochBalance
      /\ last.calls.exchange_balance = last.env.balance

\* An epoch with distributed interest that accrued and skimmed.
C10_Witness ==
    /\ EpochSkimmed
    /\ last.env.distributed_interest > 0
    /\ last.env.supply > 0
    /\ state.total_liabilities > pre.total_liabilities

----------------------------------------------------------------------------
(* Properties of registration and configuration *)

\* The handles register_contracts fills.
RegisteredHandles ==
    {"overseer_contract", "interest_model", "distribution_model",
     "collector_contract", "distributor_contract"}
\* The handles no message of update_config names.
FixedHandles ==
    {"aterra_contract", "overseer_contract", "collector_contract",
     "distributor_contract"}
ModelHandles == {"interest_model", "distribution_model"}

\* C11 as stated: a handle that was filled is the same after every call.
C11_HandlesFrozen ==
    \A h \in FixedHandles \cup ModelHandles :
        preConfig[h] # Unset => config[h] = preConfig[h]

\* C11: a filled receipt-token, overseer, collector or distributor handle is
\* the same after every call; a filled interest model or distribution model
\* changes only in an update_config of the owner, to the address it names.
C11_HandlesFrozenButModels ==
    /\ \A h \in FixedHandles : preConfig[h] # Unset => config[h] = preConfig[h]
    /\ \A h \in ModelHandles :
          (preConfig[h] # Unset /\ config[h] # preConfig[h])
            => /\ last.op = "update_config" /\ last.err = "none"
               /\ last.env.sender = preConfig.owner_addr
               /\ last.msg[h] = config[h]

\* The owner replaces the interest model of a fully registered market.
C11_Witness ==
    /\ last.op = "update_config"
    /\ \A h \in FixedHandles \cup ModelHandles : preConfig[h] # Unset
    /\ config.interest_model # preConfig.interest_model
    /\ \A h \in FixedHandles : config[h] = preConfig[h]

\* C12 as stated: an epoch call before the overseer is registered, and a
\* RedeemStable hook before the receipt token is registered, fail with an
\* error other than the one of a failed authorization.
C12_UnregisteredDistinctError ==
    /\ (EpochDone /\ preConfig.overseer_contract = Unset)
         => last.err \notin {"none", "Unauthorized"}
    /\ (last.op = "receive_cw20" /\ last.msg.hook = "RedeemStable"
          /\ preConfig.aterra_contract = Unset)
         => last.err \notin {"none", "Unauthorized"}

\* C13: reply registers the receipt token only with id 1 and only while it
\* is unset; register_contracts succeeds only while its five handles are all
\* unset; a repeated registration, and a reply with another id, fail and
\* leave Config as it was.
C13_RegisteredOnce ==
    /\ (last.op = "reply" /\ last.err = "none")
         => (last.msg.reply_id = 1 /\ preConfig.aterra_contract = Unset
             /\ config = [preConfig EXCEPT !.aterra_contract = last.msg.token_addr])
    /\ (last.op = "reply" /\ last.msg.reply_id = 1
          /\ preConfig.aterra_contract # Unset)
         => (last.err # "none" /\ config = preConfig)
    /\ (last.op = "reply" /\ last.msg.reply_id # 1)
         => (last.err = "InvalidReplyId" /\ config = preConfig)
    /\ (last.op = "register_contracts" /\ last.err = "none")
         => /\ \A h \in RegisteredHandles : preConfig[h] = Unset
            /\ \A h \in RegisteredHandles : config[h] = last.msg[h]
    /\ (last.op = "register_contracts"
          /\ \E h \in RegisteredHandles : preConfig[h] # Unset)
         => (last.err # "none" /\ config = preConfig)

\* register_contracts is called again with other addresses.
C13_Witness ==
    /\ last.op = "register_contracts"
    /\ \A h \in RegisteredHandles :
          preConfig[h] # Unset /\ last.msg[h] # preConfig[h]
    /\ last.err # "none"

\* C14: an update_config from a sender other than the stored owner fails with
\* Unauthorized and leaves Config and State as they were; Config differs
\* after a call only when the call was instantiate (which creates it), a
\* registration, or an update_config of the owner.
C14_OwnerOnlyUpdate ==
    /\ (last.op = "update_config" /\ last.env.sender # preConfig.owner_addr)
         => (last.err = "Unauthorized" /\ config = preConfig /\ state = pre)
    /\ config # preConfig
         => \/ last.op \in {"instantiate", "reply", "register_contracts"}
            \/ /\ last.op = "update_config" /\ last.err = "none"
               /\ last.env.sender = preConfig.owner_addr

\* The former owner asks for a change after the ownership moved, at a time
\* when an accrual would change State.
C14_Witness ==
    /\ last.op = "update_config"
    /\ preConfig.owner_addr = "owner2" /\ last.env.sender = "owner"
    /\ last.msg.interest_model \notin {Unset, preConfig.interest_model}
    /\ preConfig.overseer_contract # Unset /\ preConfig.aterra_contract # Unset
    /\ pre.total_liabilities > 0
    /\ last.time > pre.last_interest_updated_time

\* C15: migrate stores the emission rate it is given and leaves every other
\* field of State, and Config, as they were.
C15_MigrateFrame ==
    last.op = "migrate"
      => /\ state = [pre EXCEPT !.anc_emission_rate = last.msg.anc_emission_rate]
         /\ state.anc_emission_rate = last.msg.anc_emission_rate
         /\ config = preConfig

\* migrate changes the emission rate of a market that has accrued interest.
C15_Witness ==
    /\ last.op = "migrate"
    /\ pre.anc_emission_rate # last.msg.anc_emission_rate
    /\ pre.global_interest_index > DecOne
    /\ pre.total_reserves > 0
    /\ preConfig.overseer_contract # Unset

\* The amount of a denomination among coins of distinct denominations.
Attached(funds, denom) ==
    IF \E i \in 1..Len(funds) : funds[i].denom = denom
    THEN funds[CHOOSE i \in 1..Len(funds) : funds[i].denom = denom].amount
    ELSE 0

\* C16: instantiate succeeds only with exactly INITIAL_DEPOSIT_AMOUNT of the
\* stable denomination attached, and stores nothing when it fails; when it
\* succeeds the State is the initial one at the block time, every handle is
\* unset, and one token instantiation is requested, with reply id 1.
C16_InstantiateDeposit ==
    /\ (last.op = "instantiate" /\ last.err = "none")
         => /\ Attached(last.msg.funds, "uusd") = INITIAL_DEPOSIT_AMOUNT
            /\ instantiated
            /\ state = [ total_liabilities          |-> DecZero,
                         total_reserves             |-> DecZero,
                         last_interest_updated_time |-> last.time,
                         last_reward_updated_time   |-> last.time,
                         global_interest_index      |-> DecOne,
                         global_reward_index        |-> DecZero,
                         anc_emission_rate          |-> last.msg.anc_emission_rate,
                         prev_aterra_supply         |-> 0,
                         prev_exchange_rate         |-> DecOne ]
            /\ \A h \in FixedHandles \cup ModelHandles : config[h] = Unset
            /\ config.owner_addr = last.msg.owner_addr
            /\ Len(last.messages) = 1
            /\ last.messages[1].reply_id = 1
    /\ (last.op = "instantiate"
          /\ Attached(last.msg.funds, "uusd") # INITIAL_DEPOSIT_AMOUNT)
         => /\ last.err # "none"
            /\ ~instantiated
            /\ config = NoConfig /\ state = NoState
            /\ last.messages = << >>

\* instantiate in a later block, the deposit attached after another coin.
C16_Witness ==
    /\ last.op = "instantiate" /\ last.err = "none"
    /\ Len(last.msg.funds) = 2
    /\ last.time > 0

----------------------------------------------------------------------------
(* Properties of accrual at the marks and on an empty market *)

\* C17: an epoch at the block time both marks already carry leaves
\* total_liabilities, both indexes and both marks as it found them; a
\* query_state for the time both marks carry succeeds and answers the stored
\* State, field for field.
C17_SameTimeIdempotent ==
    /\ (EpochOk /\ last.time = pre.last_interest_updated_time
          /\ last.time = pre.last_reward_updated_time)
         => /\ state.total_liabilities = pre.total_liabilities
            /\ state.global_interest_index = pre.global_interest_index
            /\ state.global_reward_index = pre.global_reward_index
            /\ state.last_interest_updated_time = pre.last_interest_updated_time
            /\ state.last_reward_updated_time = pre.last_reward_updated_time
    /\ (last.op = "query_state" /\ QueryTime = state.last_interest_updated_time
          /\ QueryTime = state.last_reward_updated_time)
         => (last.err = "none" /\ last.resp.state = state)

\* A second epoch in a block whose first epoch accrued interest on loans.
C17_Witness ==
    /\ EpochOk
    /\ last.time > 0
    /\ last.time = pre.last_interest_updated_time
    /\ last.time = pre.last_reward_updated_time
    /\ pre.total_liabilities > from_uint256(MaxBorrow)
    /\ last.env.borrow_rate > 0 /\ last.env.emission > 0
    /\ pre.anc_emission_rate > 0

\* C18: with total_liabilities zero, a successful epoch moves both marks to
\* the block time and a successful query_state answers both marks at the
\* time asked, whatever the time elapsed and the borrow rate, and both leave
\* the two indexes as they were and total_liabilities zero.
C18_NoLiabilitiesNoAccrual ==
    /\ (EpochOk /\ pre.total_liabilities = 0)
         => /\ state.last_interest_updated_time = last.time
            /\ state.last_reward_updated_time = last.time
            /\ state.global_interest_index = pre.global_interest_index
            /\ state.global_reward_index = pre.global_reward_index
            /\ state.total_liabilities = 0
    /\ (last.op = "query_state" /\ last.err = "none" /\ pre.total_liabilities = 0)
         => /\ last.resp.state.last_interest_updated_time = QueryTime
            /\ last.resp.state.last_reward_updated_time = QueryTime
            /\ last.resp.state.global_interest_index = pre.global_interest_index
            /\ last.resp.state.global_reward_index = pre.global_reward_index
            /\ last.resp.state.total_liabilities = 0

\* An epoch on a market without loans, time elapsed, the interest model
\* quoting a rate and rewards being emitted.
C18_Witness ==
    /\ EpochOk
    /\ pre.total_liabilities = 0
    /\ last.time > pre.last_interest_updated_time
    /\ last.time > pre.last_reward_updated_time
    /\ last.env.borrow_rate > 0
    /\ pre.anc_emission_rate > 0

----------------------------------------------------------------------------
(* Properties of update_config *)

\* C19 as stated: while the overseer handle is unset, register_contracts
\* succeeds when called.
C19_RegistrationAvailable ==
    (instantiated /\ config.overseer_contract = Unset)
      => \A msg \in RegisterMsgsAny : register_contracts(config, msg).err = "none"

\* C20: an update_config that names an interest model hands compute_interest
\* the Config whose interest model is the one stored before the call, at the
\* block time; when it succeeds the State stored is the accrued one and the
\* handle is the one named.  An update_config that names none leaves State
\* as it was.
C20_AccrueBeforeReplace ==
    /\ (last.op = "update_config" /\ last.err = "none"
          /\ last.msg.interest_model # Unset)
         => LET int == compute_interest(preConfig, pre, last.time, last.env)
            IN /\ last.calls.interest_model = preConfig.interest_model
               /\ int.err = "none"
               /\ state = int.state
               /\ config.interest_model = last.msg.interest_model
    /\ (last.op = "update_config" /\ last.msg.interest_model = Unset)
         => state = pre

\* The owner replaces the interest model of a market with loans, after time
\* has passed: the accrual changes State.
C20_Witness ==
    /\ last.op = "update_config" /\ last.err = "none"
    /\ last.msg.interest_model \notin {Unset, preConfig.interest_model}
    /\ preConfig.interest_model # Unset
    /\ state # pre
    /\ state.total_liabilities > pre.total_liabilities
    /\ state.last_interest_updated_time = last.time

----------------------------------------------------------------------------
(* Properties of the epoch's response and of repeated accrual *)

\* What the last epoch call subtracted from total_reserves after the accrual.
EpochSubtracted == EpochAccrued.total_reserves - state.total_reserves

\* C21 as stated: the total_reserves attribute of a successful epoch is the
\* amount the call subtracted from total_reserves, zero without a skim.
C21_ReportedIsSubtracted ==
    EpochOk => from_uint256(last.attrs.total_reserves) = EpochSubtracted

\* C21: the total_reserves attribute of a successful epoch is the reserves
\* after accrual truncated to whole units; it is the amount subtracted when
\* the call skimmed, and when it did not skim nothing was subtracted,
\* whatever the attribute says.
C21_ReportedIsTruncated ==
    EpochOk
      => /\ last.attrs.total_reserves = EpochTrunc
         /\ EpochSkimmed => from_uint256(last.attrs.total_reserves) = EpochSubtracted
         /\ ~EpochSkimmed => EpochSubtracted = 0

\* An epoch that could not skim its whole units of reserves and reports them.
C21_Witness ==
    /\ EpochOk /\ ~EpochSkimmed
    /\ last.attrs.total_reserves > 0
    /\ EpochBalance <= EpochTrunc
    /\ state.total_reserves = EpochAccrued.total_reserves

\* Two advances were made from pre: to last.messages[1], then to last.time.
AccruedTwice == last.op = "compute_interest_raw" /\ Len(last.messages) = 2

\* The State a single advance from pre to last.time gives.
AccruedOnce == epoch_accrue(pre, last.time, last.env).state

============================================================================
